---- MODULE Spec2Model ----
(***************************************************************************)
(* A model of the multi-keypair ORE miner: the mining loop (mine.rs), the  *)
(* registration gate (open.rs) and the two submitters                      *)
(* (send_and_confirm_bundle.rs).  Remote services (RPC node, relay) are    *)
(* the environment: every answer they can give is a nondeterministic       *)
(* choice.  A panic (unwrap on None/Err) ends the process: pc = "panicked".*)
(***************************************************************************)
EXTENDS Integers, Sequences, FiniteSets, TLC

(***************************************************************************)
(* Bounds of the model.                                                    *)
(***************************************************************************)
\* keypair files found under the folder (multi_signers)
NumSigners == 2
\* rounds of the mining loop that are explored
MaxRounds == 2
\* width of the machine integers: i64/u64 are modelled with IntBits bits
IntBits == 16
\* longest hash search of one participant, in whole seconds
MaxSearchSecs == 2
\* a 1000 ms sleep lasts between 1 and MaxSleepSecs whole seconds
MaxSleepSecs == 2
\* longest instruction list handed to the bundle builder on its own
MaxIxs == 8
\* distinct blockhashes the RPC node hands out during one submission
MaxHash == 2
\* reward shards that are read (ore_api::consts::BUS_COUNT, 8 on the ledger)
BUS_COUNT == 3
\* threads of one search that the model spawns
MaxWorkers == 2
\* deadline checks a worker may fail before the model stops following it
MaxStrides == 1
\* whole seconds the timer of a search is followed for
MaxTimer == 1

(***************************************************************************)
(* Program constants.                                                      *)
(***************************************************************************)
GATEWAY_RETRIES == 4
CONFIRM_RETRIES == 4
EPOCH_LENGTH == 60
num_ixs_per_tx == 2
CHECK_EVERY == 100

I64_MAX == 2^(IntBits - 1) - 1
I64_MIN == -(2^(IntBits - 1))
U64_MAX == 2^IntBits - 1

(***************************************************************************)
(* Identities.  A pubkey is a pair <<kind, index>>.                        *)
(***************************************************************************)
Key(i) == <<"key", i>>
proof_pubkey(k) == <<"proof", k[2]>>
BUS_ADDRESSES(id) == <<"bus", id>>
CONFIG_ADDRESS == <<"config", 0>>
PAYER_KEY == <<"payer", 0>>

\* multi_signers(): the keypairs of the folder, payer.json left out
multi_signers == [i \in 1..NumSigners |-> Key(i)]

(***************************************************************************)
(* Epoch scheduler: saturating i64 arithmetic, `as` casts.                 *)
(***************************************************************************)
saturating(x) == IF x > I64_MAX THEN I64_MAX ELSE IF x < I64_MIN THEN I64_MIN ELSE x

\* `buffer_time as i64`: a u64 reinterpreted as two's complement
as_i64(u) == IF u > I64_MAX THEN u - 2^IntBits ELSE u

\* `.max(0) as u64`
max0_as_u64(x) == IF x < 0 THEN 0 ELSE x

get_cutoff(last_hash_at, buffer_time, unix_timestamp) ==
    max0_as_u64(
        saturating(
            saturating(saturating(last_hash_at + EPOCH_LENGTH) - as_i64(buffer_time))
            - unix_timestamp))

(***************************************************************************)
(* Reward shard selector.  A read is "failed" or a Bus record.             *)
(***************************************************************************)
ReadFailed == [id |-> -1, rewards |-> -1]

filter_map_ok(reads) == SelectSeq(reads, LAMBDA r : r # ReadFailed)

\* Iterator::max_by_key: of several equally maximal elements the last wins
RECURSIVE max_by_key_from(_, _, _)
max_by_key_from(buses, i, best) ==
    IF i > Len(buses) THEN best
    ELSE max_by_key_from(buses, i + 1,
            IF buses[i].rewards >= best.rewards THEN buses[i] ELSE best)

max_by_key_first(buses) == buses[1]

max_by_key(buses) == max_by_key_from(buses, 2, buses[1])

\* <<"bus", -1>>: the maximum of nothing is None, and unwrap() panics
highest_bus_of(reads) ==
    LET buses == filter_map_ok(reads)
    IN IF buses = <<>> THEN <<"bus", -1>> ELSE BUS_ADDRESSES(max_by_key(buses).id)

(***************************************************************************)
(* Proof of work.  drillx is opaque: the digest of (challenge, nonce) is   *)
(* the pair itself, its difficulty a fixed arithmetic function.            *)
(***************************************************************************)
\* the greatest difficulty the modelled digest can have
MaxDifficulty == 5

hash_ok(challenge, nonce) == (challenge + nonce) % 7 # 3

difficulty(challenge, nonce) == ((challenge * 31 + nonce * 17) % 23) % (MaxDifficulty + 1)

HashDefault == <<0, 0>>

\* the first nonce of start..last whose digest has difficulty d, looking at
\* lower difficulties when there is none
RECURSIVE first_of_level(_, _, _, _)
first_of_level(challenge, start, last, d) ==
    IF d = 0
    THEN [nonce |-> start, difficulty |-> 0, hash |-> HashDefault]
    ELSE LET at == {n \in start..last :
                       hash_ok(challenge, n) /\ difficulty(challenge, n) = d}
         IN IF at = {}
            THEN first_of_level(challenge, start, last, d - 1)
            ELSE LET first == CHOOSE n \in at : \A m \in at : n <= m
                 IN [nonce |-> first, difficulty |-> d, hash |-> <<challenge, first>>]

\* the local best of a worker that has hashed the nonces start..last: the
\* first nonce of the greatest difficulty (a later equal one does not replace it)
best_of_scan(challenge, start, last) ==
    first_of_level(challenge, start, last, MaxDifficulty)

\* one worker of find_hash_par with cutoff_time = 0: timer.elapsed() >= 0 holds
\* at every check, so the worker leaves its loop at the first nonce divisible
\* by 100 at which its best difficulty exceeds the minimum.  `check` is the
\* nonce of the next check.
RECURSIVE worker_loop(_, _, _, _)
worker_loop(challenge, start, check, min_difficulty) ==
    LET best == best_of_scan(challenge, start, check)
    IN IF best.difficulty > min_difficulty
       THEN best
       ELSE worker_loop(challenge, start, check + CHECK_EVERY, min_difficulty)

worker(challenge, i, threads, min_difficulty) ==
    LET start == (U64_MAX \div threads) * i
        first_check == ((start + CHECK_EVERY - 1) \div CHECK_EVERY) * CHECK_EVERY
    IN worker_loop(challenge, start, first_check, min_difficulty)

\* join the handles in spawn order, keep the first of the best difficulty
RECURSIVE join_handles(_, _, _, _, _)
join_handles(challenge, i, threads, min_difficulty, best) ==
    IF i >= threads THEN best
    ELSE LET r == worker(challenge, i, threads, min_difficulty)
         IN join_handles(challenge, i + 1, threads, min_difficulty,
                         IF r.difficulty > best.difficulty THEN r ELSE best)

\* mine.rs 178: where worker i starts
start_nonce(threads, i) == (U64_MAX \div threads) * i

\* mine.rs 198: the nonce of the next deadline check, a multiple of 100
next_check(nonce) == ((nonce + CHECK_EVERY - 1) \div CHECK_EVERY) * CHECK_EVERY

\* mutant: the worker leaves at the deadline whatever it has found
should_break_at_deadline(elapsed, cutoff_time, best_difficulty, min_difficulty) ==
    elapsed >= cutoff_time

\* mutant: the deadline counts only once a whole second is past it
should_break_after_deadline(elapsed, cutoff_time, best_difficulty, min_difficulty) ==
    elapsed > cutoff_time /\ best_difficulty > min_difficulty

\* mine.rs 199-203
should_break(elapsed, cutoff_time, best_difficulty, min_difficulty) ==
    elapsed >= cutoff_time /\ best_difficulty > min_difficulty

\* mine.rs 191: difficulty.gt(&best_difficulty)
local_better(d, best_difficulty) == d > best_difficulty

\* mutant: a later handle of the same difficulty replaces the best
join_better_or_equal(d, best_difficulty) == d >= best_difficulty

\* mine.rs 230: difficulty > best_difficulty
join_better(d, best_difficulty) == d > best_difficulty

\* mutant: the reduction does not wait for the thread
join_ready_always(w) == TRUE

\* mine.rs 229: h.join() returns when the thread has left its loop
join_ready(w) == w.pc = "finished"

\* Solution::new(best_hash.d, best_nonce)
find_hash_par(challenge, threads, min_difficulty) ==
    LET best == join_handles(challenge, 0, threads, min_difficulty,
                             [nonce |-> 0, difficulty |-> 0, hash |-> HashDefault])
    IN [d |-> best.hash, n |-> best.nonce]

(***************************************************************************)
(* Instructions (ore_api builders, system transfer, compute budget).       *)
(***************************************************************************)
AccountMeta(pubkey, is_signer) == [pubkey |-> pubkey, is_signer |-> is_signer]

auth_ix(proof) == [kind |-> "auth", accounts |-> <<>>, data |-> <<"auth", proof[2]>>]

mine_ix(signer, proof_authority, bus, solution) ==
    [kind |-> "mine",
     accounts |-> << AccountMeta(signer, TRUE), AccountMeta(bus, FALSE),
                     AccountMeta(CONFIG_ADDRESS, FALSE),
                     AccountMeta(proof_pubkey(proof_authority), FALSE) >>,
     data |-> <<"mine", solution.d[1], solution.d[2], solution.n>>]

cu_limit_ix == [kind |-> "cu_limit", accounts |-> <<>>, data |-> <<"cu", 500000>>]

transfer_ix(from, to, lamports) ==
    [kind |-> "transfer",
     accounts |-> << AccountMeta(from, TRUE), AccountMeta(to, FALSE) >>,
     data |-> <<"tip", lamports>>]

\* get_jito_tip_account(jito_id)
jito_tip_account(jito_id) == <<"jito", jito_id>>

(***************************************************************************)
(* Bundle construction (send_and_confirm_bundle, the while loop).          *)
(***************************************************************************)
Range(f) == {f[i] : i \in DOMAIN f}

Min(a, b) == IF a < b THEN a ELSE b

\* mutant: the tip is added whatever the instructions reference
references_always(ixs, key) == TRUE

\* ixn.accounts.iter().any(|account| account.pubkey == key)
references(ixs, key) ==
    \E i \in 1..Len(ixs) : \E a \in 1..Len(ixs[i].accounts) :
        ixs[i].accounts[a].pubkey = key

\* ix.accounts.iter().any(|acc| acc.is_signer && acc.pubkey == key)
requires_signer(ixs, key) ==
    \E i \in 1..Len(ixs) : \E a \in 1..Len(ixs[i].accounts) :
        ixs[i].accounts[a].is_signer /\ ixs[i].accounts[a].pubkey = key

\* mutant: the inner for loop takes one instruction too many
take_chunk_three(final_ixs, current_idx) ==
    SubSeq(final_ixs, current_idx + 1,
           Min(current_idx + num_ixs_per_tx + 1, Len(final_ixs)))

\* the inner `for _ in 0..num_ixs_per_tx` loop; current_idx counts from 0
take_chunk(final_ixs, current_idx) ==
    SubSeq(final_ixs, current_idx + 1,
           Min(current_idx + num_ixs_per_tx, Len(final_ixs)))

\* mutant: the fee payer stays in the signer list when the tip is added
build_tx_keep_payer(chunk, payer, hash, jito_key, jito_tip_amount, id) ==
    LET with_cu == Append(chunk, cu_limit_ix)
        tipped == IF \E i \in 1..Len(with_cu) : \E a \in 1..Len(with_cu[i].accounts) :
                         with_cu[i].accounts[a].pubkey = payer
                  THEN Append(with_cu, [kind |-> "transfer",
                         accounts |-> << [pubkey |-> payer, is_signer |-> TRUE],
                                         [pubkey |-> jito_key, is_signer |-> FALSE] >>,
                         data |-> <<"tip", jito_tip_amount>>])
                  ELSE with_cu
    IN [id |-> id, payer |-> payer, ixs |-> tipped,
        signers |-> <<payer>> \o
            SelectSeq([i \in 1..NumSigners |-> <<"key", i>>],
                      LAMBDA k : \E i \in 1..Len(tipped) :
                                    \E a \in 1..Len(tipped[i].accounts) :
                                       /\ tipped[i].accounts[a].is_signer
                                       /\ tipped[i].accounts[a].pubkey = k),
        hash |-> hash]

\* mutant: the blockhash is read again for every transaction of the bundle
build_tx_own_hash(chunk, payer, hash, jito_key, jito_tip_amount, id) ==
    LET with_cu == Append(chunk, cu_limit_ix)
        add_jito_tip == references(with_cu, payer)
        current_ixs == IF add_jito_tip
                       THEN Append(with_cu, transfer_ix(payer, jito_key, jito_tip_amount))
                       ELSE with_cu
        first_signers == IF add_jito_tip THEN <<>> ELSE <<payer>>
        fee_payer_signers ==
            first_signers \o SelectSeq(multi_signers,
                                       LAMBDA k : requires_signer(current_ixs, k))
    IN [id |-> id, payer |-> payer, ixs |-> current_ixs,
        signers |-> fee_payer_signers, hash |-> hash + id - 1]

\* one pass of the outer while loop: the transaction built from a chunk
build_tx(chunk, payer, hash, jito_key, jito_tip_amount, id) ==
    LET with_cu == Append(chunk, cu_limit_ix)
        add_jito_tip == references(with_cu, payer)
        current_ixs == IF add_jito_tip
                       THEN Append(with_cu, transfer_ix(payer, jito_key, jito_tip_amount))
                       ELSE with_cu
        first_signers == IF add_jito_tip THEN <<>> ELSE <<payer>>
        fee_payer_signers ==
            first_signers \o SelectSeq(multi_signers,
                                       LAMBDA k : requires_signer(current_ixs, k))
    IN [id |-> id, payer |-> payer, ixs |-> current_ixs,
        signers |-> fee_payer_signers, hash |-> hash]

RECURSIVE build_txs(_, _, _, _, _, _, _)
build_txs(final_ixs, current_idx, built, payer, hash, jito_ids, jito_tip_amount) ==
    IF current_idx >= Len(final_ixs) THEN built
    ELSE LET chunk == take_chunk(final_ixs, current_idx)
             id == Len(built) + 1
             tx == build_tx(chunk, payer, hash, jito_tip_account(jito_ids[id]),
                            jito_tip_amount, id)
         IN build_txs(final_ixs, current_idx + Len(chunk), Append(built, tx),
                      payer, hash, jito_ids, jito_tip_amount)

\* the keys a message requires to sign: the payer and every signer account
required_signers(tx) ==
    {tx.payer} \cup
    UNION { {tx.ixs[i].accounts[a].pubkey :
                a \in {b \in 1..Len(tx.ixs[i].accounts) : tx.ixs[i].accounts[b].is_signer}} :
            i \in 1..Len(tx.ixs) }

\* VersionedTransaction::try_new(..).unwrap(): the keypairs handed over must
\* be exactly the required signers, else the unwrap panics
try_new_ok(tx) ==
    /\ Len(tx.signers) = Cardinality(required_signers(tx))
    /\ required_signers(tx) \subseteq Range(tx.signers)

\* tx.get_signature(): fixed by the message and the blockhash it was signed with
bundle_signature(tx) == <<"sig", tx.id, tx.hash>>

tx_signature(signer_i, hash) == <<"sig", signer_i, hash>>

(***************************************************************************)
(* Confirmation polling: the walk over one getSignatureStatuses answer.    *)
(***************************************************************************)
Status == {"absent", "no_status", "processed", "confirmed", "finalized"}

\* mutant: a confirmed status is taken for one more pending answer
RECURSIVE scan_statuses_never_lands(_, _, _)
scan_statuses_never_lands(statuses, i, sleep_duration) ==
    IF i > Len(statuses) THEN <<FALSE, sleep_duration>>
    ELSE IF statuses[i] = "processed"
         THEN scan_statuses_never_lands(statuses, i + 1, 1000)
    ELSE scan_statuses_never_lands(statuses, i + 1, sleep_duration)

\* returns <<landed, sleep_duration>>; the for loop returns at the first
\* confirmed or finalized entry
RECURSIVE scan_statuses(_, _, _)
scan_statuses(statuses, i, sleep_duration) ==
    IF i > Len(statuses) THEN <<FALSE, sleep_duration>>
    ELSE IF statuses[i] \in {"confirmed", "finalized"} THEN <<TRUE, sleep_duration>>
    ELSE IF statuses[i] = "processed" THEN scan_statuses(statuses, i + 1, 1000)
    ELSE scan_statuses(statuses, i + 1, sleep_duration)

\* both callers pass skip_confirm = false
skip_confirm == FALSE

\* mutant: the bound is checked with >= instead of >
retries_exhausted_early(attempts) == attempts >= GATEWAY_RETRIES

\* `if attempts > GATEWAY_RETRIES`
retries_exhausted(attempts) == attempts > GATEWAY_RETRIES

(***************************************************************************)
(* State.                                                                  *)
(***************************************************************************)
VARIABLES
    \* Miner::mine
    pc,               \* where the process is; "panicked" once an unwrap failed
    round,            \* ghost: number of the current pass of the mining loop
    args,             \* MineArgs
    fee_payer,        \* self.fee_payer().pubkey()
    account_exists,   \* ledger: does participant i's proof account exist
    open_i,           \* open_all: index of the signer being checked
    proofs,           \* mine: proofs
    solutions,        \* mine: solutions
    sol_round,        \* ghost: the round each entry of solutions was computed in
    clock,            \* ledger clock (unix_timestamp), advancing with wall time
    elapsed,          \* whole seconds since `start`
    cutoff_time,
    wait_time,
    wait_elapsed,     \* whole seconds since `wait_start`
    remaining,
    buses,            \* find_highest_reward_bus: the joined reads
    highest_bus,
    all_ixs,
    last_submit,      \* the Result matched at the end of the previous round
    \* Miner::send_and_confirm_bundle
    b_pc, txs, b_sigs, b_attempts, b_sleep_duration, b_confirm_i, b_result,
    b_send_res,       \* what the last relay request ended with
    b_sends,          \* ghost: relay requests made in this call
    \* Miner::send_and_confirm_with_key
    t_pc, t_signer, t_hash, t_sigs, t_attempts, t_sleep_duration, t_confirm_i,
    t_result, t_ret_sig,
    t_send_res,       \* what the last send_transaction_with_config ended with
    t_sends,          \* ghost: sends made in this call
    t_landed,         \* ghost: the signature whose status ended the call
    \* Miner::find_hash_par
    search_pc,        \* "idle", "spawn", "join", "returned"
    search_args,      \* the arguments: challenge, cutoff_time, threads, min_difficulty
    workers,          \* the spawned threads, in spawn order: worker i is workers[i + 1]
    timer,            \* whole seconds since the threads were spawned
    join_i,           \* handles joined so far
    join_best,        \* best_nonce, best_difficulty, best_hash of the reduction
    found,            \* the Solution returned
    polled            \* ghost: the last answer of get_signature_statuses, where it is followed

mineVars == <<pc, round, args, fee_payer, account_exists, open_i, proofs, solutions,
              sol_round, clock, elapsed, cutoff_time, wait_time, wait_elapsed,
              remaining, buses, highest_bus, all_ixs, last_submit>>
timeVars == <<clock, elapsed, cutoff_time, wait_time, wait_elapsed, remaining>>
bundleVars == <<b_pc, txs, b_sigs, b_attempts, b_sleep_duration, b_confirm_i,
                b_result, b_send_res, b_sends>>
txVars == <<t_pc, t_signer, t_hash, t_sigs, t_attempts, t_sleep_duration,
            t_confirm_i, t_result, t_ret_sig, t_send_res, t_sends, t_landed>>
searchVars == <<search_pc, search_args, workers, timer, join_i, join_best, found>>
vars == <<mineVars, bundleVars, txVars, searchVars, polled>>

NoSig == <<"sig", 0, 0>>
NoBus == <<"bus", -1>>

(***************************************************************************)
(* Inputs and environment answers.                                         *)
(***************************************************************************)
Args == [threads : {2}, min_difficulty : {0}, buffer_time : {2},
         jito_tip : {1000}]
\* get_config(..).min_difficulty on the ledger
ConfigMinDifficulty == {2}
FeePayers == {PAYER_KEY, Key(1)}
Challenges == {1, 2}
ClockAtRoundStart == {1000}
\* last_hash_at of a proof: 55 or 60 seconds before the pass started
LastHashAts == {c - age : c \in ClockAtRoundStart, age \in {55, 60}}
\* the blockhash get_latest_blockhash answers first
FirstHash == {1}
JitoIds == {0, 1}
RewardValues == {0, 10, 40, 75}
\* the rewards the shards hold in a pass of the mining loop
RoundRewardValues == {10, 75}

\* every joint outcome of the BUS_COUNT concurrent get_bus reads; -1: failed
BusReads(outcomes) ==
    { [k \in 1..BUS_COUNT |->
          IF o[k] = -1 THEN ReadFailed ELSE [id |-> k - 1, rewards |-> o[k]]] :
      o \in [1..BUS_COUNT -> {-1} \cup outcomes] }

IdleBundle ==
    /\ b_pc = "idle" /\ txs = <<>> /\ b_sigs = <<>> /\ b_attempts = 0
    /\ b_sleep_duration = 2000 /\ b_confirm_i = 0 /\ b_result = "none"
    /\ b_send_res = "none" /\ b_sends = 0

IdleTx ==
    /\ t_pc = "idle" /\ t_signer = 0 /\ t_hash = 0 /\ t_sigs = <<>>
    /\ t_attempts = 0 /\ t_sleep_duration = 10000 /\ t_confirm_i = 0
    /\ t_result = "none" /\ t_ret_sig = NoSig /\ t_send_res = "none"
    /\ t_sends = 0 /\ t_landed = NoSig

NoBest == [nonce |-> 0, difficulty |-> 0, hash |-> HashDefault]

NoSolution == [d |-> HashDefault, n |-> 0]

IdleSearch ==
    /\ search_pc = "idle"
    /\ search_args = [challenge |-> 0, cutoff_time |-> 0, threads |-> 0, min_difficulty |-> 0]
    /\ workers = <<>> /\ timer = 0 /\ join_i = 0 /\ join_best = NoBest
    /\ found = NoSolution

IdleTime ==
    /\ clock = 0 /\ elapsed = 0 /\ cutoff_time = 0 /\ wait_time = 0
    /\ wait_elapsed = 0 /\ remaining = 0

Init ==
    /\ pc = "open_all"
    /\ round = 0
    /\ args \in Args
    /\ fee_payer \in FeePayers
    /\ account_exists \in [1..NumSigners -> BOOLEAN]
    /\ open_i = 1
    /\ proofs = <<>> /\ solutions = <<>> /\ sol_round = <<>>
    /\ IdleTime
    /\ buses = <<>> /\ highest_bus = NoBus /\ all_ixs = <<>>
    /\ last_submit = "none"
    /\ IdleBundle
    /\ IdleTx
    /\ IdleSearch
    /\ polled = <<>>

Panic == pc' = "panicked"

\* a call frame that has returned holds nothing
ResetBundle ==
    /\ b_pc' = "idle" /\ txs' = <<>> /\ b_sigs' = <<>> /\ b_attempts' = 0
    /\ b_sleep_duration' = 2000 /\ b_confirm_i' = 0 /\ b_result' = "none"
    /\ b_send_res' = "none" /\ b_sends' = 0

ResetTx ==
    /\ t_pc' = "idle" /\ t_signer' = 0 /\ t_hash' = 0 /\ t_sigs' = <<>>
    /\ t_attempts' = 0 /\ t_sleep_duration' = 10000 /\ t_confirm_i' = 0
    /\ t_result' = "none" /\ t_ret_sig' = NoSig /\ t_send_res' = "none"
    /\ t_sends' = 0 /\ t_landed' = NoSig

ResetTime ==
    /\ clock' = 0 /\ elapsed' = 0 /\ cutoff_time' = 0 /\ wait_time' = 0
    /\ wait_elapsed' = 0 /\ remaining' = 0

(***************************************************************************)
(* Miner::open_all (open.rs) and Miner::send_and_confirm_with_key.         *)
(***************************************************************************)
\* open.rs 10-15: get_account(..).is_err() holds when the account is absent,
\* and also when the read itself fails
OpenCheck ==
    /\ pc = "open_all" /\ open_i <= NumSigners
    /\ \E is_err \in (IF account_exists[open_i] THEN {FALSE, TRUE} ELSE {TRUE}) :
         IF is_err
         THEN /\ pc' = "in_open_tx"
              /\ t_pc' = "generate" /\ t_signer' = open_i
              /\ UNCHANGED <<open_i, t_hash, t_sigs, t_attempts, t_sleep_duration,
                             t_confirm_i, t_result, t_ret_sig, t_send_res, t_sends,
                             t_landed>>
         ELSE /\ open_i' = open_i + 1
              /\ UNCHANGED <<pc, txVars>>
    /\ UNCHANGED <<round, args, fee_payer, account_exists, proofs, solutions,
                   sol_round, timeVars, buses, highest_bus, all_ixs, last_submit,
                   bundleVars>>
    /\ UNCHANGED <<searchVars, polled>>

\* generate_transaction: the blockhash read is unwrapped
TxGenerate ==
    /\ pc = "in_open_tx" /\ t_pc = "generate"
    /\ \/ /\ Panic
          /\ UNCHANGED txVars
       \/ /\ t_hash' \in FirstHash /\ t_pc' = "send"
          /\ UNCHANGED <<pc, t_signer, t_sigs, t_attempts, t_sleep_duration,
                         t_confirm_i, t_result, t_ret_sig, t_send_res, t_sends,
                         t_landed>>
    /\ UNCHANGED <<round, args, fee_payer, account_exists, open_i, proofs, solutions,
                   sol_round, timeVars, buses, highest_bus, all_ixs, last_submit,
                   bundleVars>>
    /\ UNCHANGED <<searchVars, polled>>

SendResults == {"ok", "rpc_error", "parse_error", "mismatch"}

\* send_transaction_with_config and the match on its result (lines 229-237,
\* 277-279): every Err, the mismatched signature included, takes the same arm
TxSend ==
    /\ pc = "in_open_tx" /\ t_pc = "send"
    /\ t_sends' = t_sends + 1
    /\ \E res \in SendResults :
         /\ t_send_res' = res
         /\ IF res = "ok"
            THEN /\ t_sigs' = Append(t_sigs, tx_signature(t_signer, t_hash))
                 /\ IF skip_confirm
                    THEN /\ t_result' = "Ok" /\ t_pc' = "done"
                         /\ t_ret_sig' = tx_signature(t_signer, t_hash)
                    ELSE /\ t_pc' = "confirm"
                         /\ UNCHANGED <<t_result, t_ret_sig>>
            ELSE /\ t_pc' = "retry"
                 /\ UNCHANGED <<t_sigs, t_result, t_ret_sig>>
    /\ t_confirm_i' = 0
    /\ UNCHANGED <<t_signer, t_hash, t_attempts, t_sleep_duration, t_landed>>
    /\ UNCHANGED <<mineVars, bundleVars>>
    /\ UNCHANGED <<searchVars, polled>>

\* what get_signature_statuses can answer for the signatures asked about:
\* an error, or one status for each signature (the same signature has the
\* same status)
PollError == <<"rpc_error">>

PollAnswers(sigs) ==
    {PollError} \cup
    {[k \in 1..Len(sigs) |-> ledger[sigs[k]]] : ledger \in [Range(sigs) -> Status]}

\* one pass of `for _ in 0..CONFIRM_RETRIES` (lines 238-272)
TxPollStep(answer) ==
    /\ pc = "in_open_tx" /\ t_pc = "confirm" /\ t_confirm_i < CONFIRM_RETRIES
    /\ IF answer = PollError
       THEN \* get_signature_statuses failed: logged, the loop goes on
            /\ t_confirm_i' = t_confirm_i + 1
            /\ t_pc' = IF t_confirm_i' = CONFIRM_RETRIES THEN "retry" ELSE "confirm"
            /\ UNCHANGED <<t_sleep_duration, t_result, t_ret_sig, t_landed,
                           account_exists>>
       ELSE LET statuses == answer
                scan == scan_statuses(statuses, 1, t_sleep_duration)
                hit == CHOOSE k \in 1..Len(t_sigs) :
                          /\ statuses[k] \in {"confirmed", "finalized"}
                          /\ \A j \in 1..(k - 1) :
                                statuses[j] \notin {"confirmed", "finalized"}
            IN IF scan[1]
               THEN /\ t_result' = "Ok" /\ t_pc' = "done"
                    /\ t_ret_sig' = t_sigs[Len(t_sigs)]
                    /\ t_landed' = t_sigs[hit]
                    \* a landed open transaction created the proof account
                    /\ account_exists' = [account_exists EXCEPT ![t_signer] = TRUE]
                    /\ UNCHANGED <<t_confirm_i, t_sleep_duration>>
               ELSE /\ t_sleep_duration' = scan[2]
                    /\ t_confirm_i' = t_confirm_i + 1
                    /\ t_pc' = IF t_confirm_i' = CONFIRM_RETRIES
                               THEN "retry" ELSE "confirm"
                    /\ UNCHANGED <<t_result, t_ret_sig, t_landed, account_exists>>
    /\ UNCHANGED <<t_signer, t_hash, t_sigs, t_attempts, t_send_res, t_sends>>
    /\ UNCHANGED <<pc, round, args, fee_payer, open_i, proofs, solutions, sol_round,
                   timeVars, buses, highest_bus, all_ixs, last_submit, bundleVars>>
    /\ UNCHANGED searchVars

TxPoll == \E answer \in PollAnswers(t_sigs) : TxPollStep(answer) /\ UNCHANGED polled

\* the same pass, with the answer kept
TxPollSeen == \E answer \in PollAnswers(t_sigs) : TxPollStep(answer) /\ polled' = answer

\* lines 283-303: refresh the blockhash (unwrapped), re-sign, count the attempt
TxRetry ==
    /\ pc = "in_open_tx" /\ t_pc = "retry"
    /\ \/ /\ Panic
          /\ UNCHANGED txVars
       \/ \E h \in t_hash..MaxHash :
            /\ t_hash' = h
            /\ t_attempts' = t_attempts + 1
            /\ IF retries_exhausted(t_attempts')
               THEN t_result' = "MaxRetries" /\ t_pc' = "done"
               ELSE t_pc' = "send" /\ UNCHANGED t_result
            /\ t_send_res' = "none"
            /\ UNCHANGED <<pc, t_signer, t_sigs, t_sleep_duration, t_confirm_i,
                           t_ret_sig, t_sends, t_landed>>
    /\ UNCHANGED <<round, args, fee_payer, account_exists, open_i, proofs, solutions,
                   sol_round, timeVars, buses, highest_bus, all_ixs, last_submit,
                   bundleVars>>
    /\ UNCHANGED <<searchVars, polled>>

\* open.rs 22-24: `.ok()` drops the result, the loop goes to the next signer
OpenAfterTx ==
    /\ pc = "in_open_tx" /\ t_pc = "done"
    /\ pc' = "open_all" /\ open_i' = open_i + 1
    /\ ResetTx
    /\ UNCHANGED <<round, args, fee_payer, account_exists, proofs, solutions,
                   sol_round, timeVars, buses, highest_bus, all_ixs, last_submit,
                   bundleVars>>
    /\ UNCHANGED <<searchVars, polled>>

(***************************************************************************)
(* Miner::mine: the mining loop.                                           *)
(***************************************************************************)
\* mutant: the vectors are created once, before the loop
keep_vec(old) == old

\* mine.rs 40-42: `Vec::new()` at the top of every pass
new_vec(old) == <<>>

\* mine.rs 33-46: open_all has returned; the first pass of the loop starts
MineStart ==
    /\ pc = "open_all" /\ open_i > NumSigners
    /\ pc' = "fetch" /\ round' = 1
    /\ proofs' = new_vec(proofs) /\ solutions' = new_vec(solutions)
    /\ sol_round' = new_vec(sol_round)
    /\ clock' \in ClockAtRoundStart
    /\ elapsed' = 0
    /\ UNCHANGED <<args, fee_payer, account_exists, open_i, cutoff_time, wait_time,
                   wait_elapsed, remaining, buses, highest_bus, all_ixs, last_submit,
                   bundleVars, txVars>>
    /\ UNCHANGED <<searchVars, polled>>

\* mutant: every participant is mined against the challenge of the first proof
search_first_proof(fetched, proof, threads, min_difficulty) ==
    find_hash_par((fetched \o <<proof>>)[1].challenge, threads, min_difficulty)

\* mine.rs 73-79: the search runs on the proof just fetched
search(fetched, proof, threads, min_difficulty) ==
    find_hash_par(proof.challenge, threads, min_difficulty)

\* mine.rs 48-82, one pass of `for signer in &signers`: fetch the proof, read
\* the config, search.  Reading the proof of an account that does not exist
\* cannot yield a Proof: get_proof_with_authority returns no Result.
MineFetchSearch ==
    /\ pc = "fetch" /\ Len(proofs) < NumSigners
    /\ LET i == Len(proofs) + 1 IN
       IF ~account_exists[i]
       THEN /\ Panic
            /\ UNCHANGED <<proofs, solutions, sol_round, clock, elapsed>>
       ELSE \E challenge \in Challenges, last_hash_at \in LastHashAts,
               cfg \in ConfigMinDifficulty, took \in 0..MaxSearchSecs :
              LET proof == [challenge |-> challenge, last_hash_at |-> last_hash_at]
                  min_difficulty == IF args.min_difficulty = 0
                                    THEN cfg ELSE args.min_difficulty
              IN /\ proofs' = Append(proofs, proof)
                 /\ solutions' = Append(solutions,
                        search(proofs, proof, args.threads, min_difficulty))
                 /\ sol_round' = Append(sol_round, round)
                 /\ clock' = clock + took
                 /\ elapsed' = elapsed + took
                 /\ pc' = IF i = NumSigners THEN "cutoff" ELSE "fetch"
    \* the matched Result of the previous pass is gone
    /\ last_submit' = "none"
    /\ UNCHANGED <<round, args, fee_payer, account_exists, open_i, cutoff_time,
                   wait_time, wait_elapsed, remaining, buses, highest_bus, all_ixs,
                   bundleVars, txVars>>
    /\ UNCHANGED <<searchVars, polled>>

\* mine.rs 90-97: the wait is the cutoff less the seconds since `start`
MineGetCutoff ==
    /\ pc = "cutoff"
    /\ cutoff_time' = get_cutoff(proofs[Len(proofs)].last_hash_at,
                                 args.buffer_time, clock)
    /\ IF elapsed < cutoff_time'
       THEN wait_time' = cutoff_time' - elapsed /\ pc' = "wait"
       ELSE wait_time' = 0 /\ pc' = "select"
    /\ wait_elapsed' = 0 /\ remaining' = 0
    /\ UNCHANGED <<round, args, fee_payer, account_exists, open_i, proofs, solutions,
                   sol_round, clock, elapsed, buses, highest_bus, all_ixs,
                   last_submit, bundleVars, txVars>>
    /\ UNCHANGED <<searchVars, polled>>

\* mine.rs 98-105, one pass of the while loop: sleep, then show what remains.
\* `wait_time - elapsed` is an unchecked u64 subtraction: when it underflows a
\* debug build panics and a release build wraps.
MineWaitSleep ==
    /\ pc = "wait" /\ wait_elapsed < wait_time
    /\ \E slept \in 1..MaxSleepSecs :
         /\ wait_elapsed' = wait_elapsed + slept
         /\ clock' = clock + slept
         /\ IF wait_elapsed' <= wait_time
            THEN remaining' = wait_time - wait_elapsed' /\ UNCHANGED pc
            ELSE \/ remaining' = wait_time - wait_elapsed' + 2^IntBits /\ UNCHANGED pc
                 \/ Panic /\ UNCHANGED remaining
    /\ UNCHANGED <<round, args, fee_payer, account_exists, open_i, proofs, solutions,
                   sol_round, elapsed, cutoff_time, wait_time, buses, highest_bus,
                   all_ixs, last_submit, bundleVars, txVars>>
    /\ UNCHANGED <<searchVars, polled>>

\* mine.rs 98: the loop condition fails
MineWaitDone ==
    /\ pc = "wait" /\ wait_elapsed >= wait_time
    /\ pc' = "select"
    /\ UNCHANGED <<round, args, fee_payer, account_exists, open_i, proofs, solutions,
                   sol_round, timeVars, buses, highest_bus, all_ixs, last_submit,
                   bundleVars, txVars>>
    /\ UNCHANGED <<searchVars, polled>>

\* signers.iter().zip(solutions.iter())
zip_solution(sols, i) == sols[i]

\* mine.rs 114-125
assemble_ixs(sols, bus) ==
    LET pair(i) == << auth_ix(proof_pubkey(multi_signers[i])),
                      mine_ix(multi_signers[i], multi_signers[i], bus,
                              zip_solution(sols, i)) >>
        RECURSIVE upto(_)
        upto(i) == IF i = 0 THEN <<>> ELSE upto(i - 1) \o pair(i)
    IN upto(Min(NumSigners, Len(sols)))

\* mine.rs 112-125: pick the bus, assemble the instructions.  unwrap() on
\* the empty maximum panics.
MineSelect ==
    /\ pc = "select"
    /\ \E reads \in BusReads(RoundRewardValues) :
         LET bus == highest_bus_of(reads)
         IN IF bus = NoBus
            THEN /\ Panic
                 /\ UNCHANGED <<highest_bus, all_ixs>>
            ELSE /\ highest_bus' = bus
                 /\ all_ixs' = assemble_ixs(solutions, bus)
                 /\ pc' = "submit"
    /\ UNCHANGED <<round, args, fee_payer, account_exists, open_i, proofs, solutions,
                   sol_round, timeVars, buses, last_submit, bundleVars, txVars>>
    /\ UNCHANGED <<searchVars, polled>>

\* mine.rs 126-129: the call of send_and_confirm_bundle.  Neither the proofs
\* nor the clocks are read again in this pass: the model drops them here
\* rather than at the end of the pass.
MineSubmit ==
    /\ pc = "submit"
    /\ pc' = "in_bundle" /\ b_pc' = "build"
    /\ proofs' = <<>>
    /\ ResetTime
    /\ UNCHANGED <<round, args, fee_payer, account_exists, open_i, solutions,
                   sol_round, buses, highest_bus, all_ixs, last_submit, txs, b_sigs,
                   b_attempts, b_sleep_duration, b_confirm_i, b_result, b_send_res,
                   b_sends, txVars>>
    /\ UNCHANGED <<searchVars, polled>>

\* find_highest_reward_bus (mine.rs 147-159) on its own: the joined reads are
\* kept in `buses`
FindHighestRewardBus ==
    /\ pc = "find_highest_reward_bus"
    /\ \E reads \in BusReads(RewardValues) :
         /\ buses' = reads
         /\ highest_bus' = highest_bus_of(reads)
         /\ pc' = IF highest_bus_of(reads) = NoBus THEN "panicked" ELSE "returned"
    /\ UNCHANGED <<round, args, fee_payer, account_exists, open_i, proofs, solutions,
                   sol_round, timeVars, all_ixs, last_submit, bundleVars, txVars>>
    /\ UNCHANGED <<searchVars, polled>>

(***************************************************************************)
(* Miner::send_and_confirm_bundle.                                         *)
(***************************************************************************)
\* lines 319-388: read the blockhash (unwrapped), build and sign the
\* transactions (try_new unwrapped)
BundleBuild ==
    /\ pc = "in_bundle" /\ b_pc = "build"
    /\ \/ /\ Panic
          /\ UNCHANGED <<txs, b_pc>>
       \/ \E hash \in FirstHash, jito_ids \in [1..((Len(all_ixs) + 1) \div 2) -> JitoIds] :
            LET built == build_txs(all_ixs, 0, <<>>, fee_payer, hash, jito_ids,
                                   args.jito_tip)
            IN IF \A k \in 1..Len(built) : try_new_ok(built[k])
               THEN txs' = built /\ b_pc' = "send" /\ UNCHANGED pc
               ELSE Panic /\ UNCHANGED <<txs, b_pc>>
    /\ UNCHANGED <<round, args, fee_payer, account_exists, open_i, proofs, solutions,
                   sol_round, timeVars, buses, highest_bus, all_ixs, last_submit,
                   b_sigs, b_attempts, b_sleep_duration, b_confirm_i, b_result,
                   b_send_res, b_sends, txVars>>
    /\ UNCHANGED <<searchVars, polled>>

RelayResults == {"ok", "unreachable", "bad_status", "malformed"}

\* send_transaction_with_config_bundle, lines 116-138: send().await.unwrap(),
\* error_for_status().unwrap() and transactions.first().unwrap()
relay_panics(res, built) ==
    \/ res \in {"unreachable", "bad_status"}
    \/ res = "ok" /\ built = <<>>

\* lines 396-403, 452-458
BundleSend ==
    /\ pc = "in_bundle" /\ b_pc = "send"
    /\ b_sends' = b_sends + 1
    /\ \E res \in RelayResults :
         /\ b_send_res' = res
         /\ IF relay_panics(res, txs)
            THEN Panic /\ UNCHANGED <<b_pc, b_sigs, b_result>>
            ELSE /\ UNCHANGED pc
                 /\ IF res = "ok"
                    THEN /\ b_sigs' = Append(b_sigs, bundle_signature(txs[1]))
                         /\ IF skip_confirm
                            THEN b_result' = "Ok" /\ b_pc' = "done"
                            ELSE b_pc' = "confirm" /\ UNCHANGED b_result
                    ELSE b_pc' = "retry" /\ UNCHANGED <<b_sigs, b_result>>
    /\ b_confirm_i' = 0
    /\ UNCHANGED <<txs, b_attempts, b_sleep_duration>>
    /\ UNCHANGED <<round, args, fee_payer, account_exists, open_i, proofs, solutions,
                   sol_round, timeVars, buses, highest_bus, all_ixs, last_submit,
                   txVars>>
    /\ UNCHANGED <<searchVars, polled>>

\* one pass of `for _ in 0..CONFIRM_RETRIES` (lines 405-448)
BundlePollStep(answer) ==
    /\ pc = "in_bundle" /\ b_pc = "confirm" /\ b_confirm_i < CONFIRM_RETRIES
    /\ IF answer = PollError
       THEN /\ b_confirm_i' = b_confirm_i + 1
            /\ b_pc' = IF b_confirm_i' = CONFIRM_RETRIES THEN "retry" ELSE "confirm"
            /\ UNCHANGED <<b_sleep_duration, b_result>>
       ELSE LET statuses == answer
                scan == scan_statuses(statuses, 1, b_sleep_duration)
            IN IF scan[1]
               THEN /\ b_result' = "Ok" /\ b_pc' = "done"
                    /\ UNCHANGED <<b_confirm_i, b_sleep_duration>>
               ELSE /\ b_sleep_duration' = scan[2]
                    /\ b_confirm_i' = b_confirm_i + 1
                    /\ b_pc' = IF b_confirm_i' = CONFIRM_RETRIES
                               THEN "retry" ELSE "confirm"
                    /\ UNCHANGED b_result
    /\ UNCHANGED <<txs, b_sigs, b_attempts, b_send_res, b_sends>>
    /\ UNCHANGED <<mineVars, txVars>>
    /\ UNCHANGED searchVars

BundlePoll ==
    \E answer \in PollAnswers(b_sigs) : BundlePollStep(answer) /\ UNCHANGED polled

\* the same pass, with the answer kept
BundlePollSeen ==
    \E answer \in PollAnswers(b_sigs) : BundlePollStep(answer) /\ polled' = answer

\* lines 460-469
BundleRetry ==
    /\ pc = "in_bundle" /\ b_pc = "retry"
    /\ b_attempts' = b_attempts + 1
    /\ IF retries_exhausted(b_attempts')
       THEN b_result' = "MaxRetries" /\ b_pc' = "done"
       ELSE b_pc' = "send" /\ UNCHANGED b_result
    /\ b_send_res' = "none"
    /\ UNCHANGED <<txs, b_sigs, b_sleep_duration, b_confirm_i, b_sends>>
    /\ UNCHANGED <<mineVars, txVars>>
    /\ UNCHANGED <<searchVars, polled>>

\* mine.rs 127-138 and 39-46: both arms of the match only print; the loop
\* starts its next pass
MineAfterBundle ==
    /\ pc = "in_bundle" /\ b_pc = "done" /\ round < MaxRounds
    /\ last_submit' = b_result
    /\ round' = round + 1
    /\ pc' = "fetch"
    /\ proofs' = new_vec(proofs) /\ solutions' = new_vec(solutions)
    /\ sol_round' = new_vec(sol_round)
    /\ highest_bus' = NoBus /\ all_ixs' = new_vec(all_ixs)
    /\ clock' \in ClockAtRoundStart
    /\ ResetBundle
    /\ UNCHANGED <<args, fee_payer, account_exists, open_i, elapsed, cutoff_time,
                   wait_time, wait_elapsed, remaining, buses, txVars>>
    /\ UNCHANGED <<searchVars, polled>>

Next ==
    \/ OpenCheck \/ TxGenerate \/ TxSend \/ TxPoll \/ TxRetry \/ OpenAfterTx
    \/ MineStart \/ MineFetchSearch \/ MineGetCutoff \/ MineWaitSleep
    \/ MineWaitDone \/ MineSelect \/ MineSubmit
    \/ BundleBuild \/ BundleSend \/ BundlePoll \/ BundleRetry \/ MineAfterBundle

Spec == Init /\ [][Next]_vars

(***************************************************************************)
(* get_cutoff on its own: one proof, any buffer, any ledger clock.         *)
(***************************************************************************)
LastHashAtSamples == {I64_MIN, -1, 0, 100, I64_MAX - 70, I64_MAX - 10, I64_MAX}
BufferSamples == {0, 5, 60, 70, I64_MAX, I64_MAX + 1, U64_MAX}
ClockSamples == {I64_MIN, 0, 100, 150, 158, 160, 200, I64_MAX}

InitCutoff ==
    /\ pc = "cutoff"
    /\ round = 1
    /\ args \in [threads : {2}, min_difficulty : {0}, buffer_time : BufferSamples,
                 jito_tip : {1000}]
    /\ fee_payer = PAYER_KEY
    /\ account_exists = [i \in 1..NumSigners |-> TRUE]
    /\ open_i = NumSigners + 1
    /\ \E last_hash_at \in LastHashAtSamples :
         proofs = <<[challenge |-> 1, last_hash_at |-> last_hash_at]>>
    /\ solutions = <<>> /\ sol_round = <<>>
    /\ clock \in ClockSamples
    /\ elapsed = 0 /\ cutoff_time = 0 /\ wait_time = 0 /\ wait_elapsed = 0
    /\ remaining = 0
    /\ buses = <<>> /\ highest_bus = NoBus /\ all_ixs = <<>>
    /\ last_submit = "none"
    /\ IdleBundle
    /\ IdleTx
    /\ IdleSearch
    /\ polled = <<>>

NextCutoff == MineGetCutoff

SpecCutoff == InitCutoff /\ [][NextCutoff]_vars

(***************************************************************************)
(* find_highest_reward_bus on its own.                                     *)
(***************************************************************************)
InitBus ==
    /\ pc = "find_highest_reward_bus"
    /\ round = 1
    /\ args \in Args
    /\ fee_payer = PAYER_KEY
    /\ account_exists = [i \in 1..NumSigners |-> TRUE]
    /\ open_i = NumSigners + 1
    /\ proofs = <<>> /\ solutions = <<>> /\ sol_round = <<>>
    /\ IdleTime
    /\ buses = <<>> /\ highest_bus = NoBus /\ all_ixs = <<>>
    /\ last_submit = "none"
    /\ IdleBundle
    /\ IdleTx
    /\ IdleSearch
    /\ polled = <<>>

NextBus == FindHighestRewardBus

SpecBus == InitBus /\ [][NextBus]_vars

(***************************************************************************)
(* The bundle builder on its own: any list of up to MaxIxs instructions.   *)
(***************************************************************************)
SampleSolution == [d |-> <<1, 7>>, n |-> 7]

IxPool == { auth_ix(proof_pubkey(Key(1))),
            mine_ix(Key(1), Key(1), BUS_ADDRESSES(0), SampleSolution) }

InitBuild ==
    /\ pc = "in_bundle"
    /\ round = 1
    /\ args \in Args
    /\ fee_payer \in FeePayers
    /\ account_exists = [i \in 1..NumSigners |-> TRUE]
    /\ open_i = NumSigners + 1
    /\ proofs = <<>> /\ solutions = <<>> /\ sol_round = <<>>
    /\ IdleTime
    /\ buses = <<>> /\ highest_bus = NoBus
    /\ all_ixs \in UNION {[1..n -> IxPool] : n \in 0..MaxIxs}
    /\ last_submit = "none"
    /\ b_pc = "build" /\ txs = <<>> /\ b_sigs = <<>> /\ b_attempts = 0
    /\ b_sleep_duration = 2000 /\ b_confirm_i = 0 /\ b_result = "none"
    /\ b_send_res = "none" /\ b_sends = 0
    /\ IdleTx
    /\ IdleSearch
    /\ polled = <<>>

NextBuild == BundleBuild

SpecBuild == InitBuild /\ [][NextBuild]_vars

(***************************************************************************)
(* find_hash_par on its own, thread by thread.  A step of a worker hashes  *)
(* the nonces up to its next deadline check; the threads share nothing.    *)
(***************************************************************************)
\* a thread count whose partitions are shorter than the check period
ManyThreads == U64_MAX \div (CHECK_EVERY \div 2)

\* the challenge of the proof that is searched
SearchChallenges == {1}

ThreadCounts == {1, MaxWorkers, ManyThreads}

\* no digest clears the last of them
MinDifficulties == {0, MaxDifficulty - 1, MaxDifficulty}

InitSearch ==
    /\ pc = "find_hash_par"
    /\ round = 1
    /\ args \in Args
    /\ fee_payer = PAYER_KEY
    /\ account_exists = [i \in 1..NumSigners |-> TRUE]
    /\ open_i = NumSigners + 1
    /\ proofs = <<>> /\ solutions = <<>> /\ sol_round = <<>>
    /\ IdleTime
    /\ buses = <<>> /\ highest_bus = NoBus /\ all_ixs = <<>>
    /\ last_submit = "none"
    /\ IdleBundle
    /\ IdleTx
    /\ search_pc = "spawn"
    /\ search_args \in [challenge : SearchChallenges, cutoff_time : {0, 1},
                        threads : ThreadCounts, min_difficulty : MinDifficulties]
    /\ workers = <<>> /\ timer = 0 /\ join_i = 0 /\ join_best = NoBest
    /\ found = NoSolution
    /\ polled = <<>>

\* mine.rs 170-181: spawn the next thread; collect() ends once all are spawned
Spawn ==
    /\ search_pc = "spawn"
    /\ Len(workers) < search_args.threads /\ Len(workers) < MaxWorkers
    /\ LET start == start_nonce(search_args.threads, Len(workers))
       IN workers' = Append(workers,
              [pc |-> "running", start |-> start, nonce |-> start,
               best_nonce |-> start, best_difficulty |-> 0,
               best_hash |-> HashDefault, checks |-> 0])
    /\ search_pc' = IF Len(workers') = search_args.threads THEN "join" ELSE "spawn"
    /\ UNCHANGED <<search_args, timer, join_i, join_best, found>>
    /\ UNCHANGED <<mineVars, bundleVars, txVars, polled>>

\* mine.rs 182-214: worker i + 1 hashes from its nonce to its next check, keeps
\* the first digest of the greatest difficulty, and at the check leaves the
\* loop or increments the nonce
WorkerStride(i) ==
    /\ search_pc \in {"spawn", "join"}
    /\ i \in 1..Len(workers)
    /\ workers[i].pc = "running"
    /\ LET w == workers[i]
           check == next_check(w.nonce)
           scan == best_of_scan(search_args.challenge, w.nonce, check)
           better == local_better(scan.difficulty, w.best_difficulty)
           best_difficulty == IF better THEN scan.difficulty ELSE w.best_difficulty
           stop == should_break(timer, search_args.cutoff_time, best_difficulty,
                                search_args.min_difficulty)
       IN /\ stop \/ w.checks < MaxStrides
          /\ check < U64_MAX
          /\ workers' = [workers EXCEPT ![i] =
                [pc |-> IF stop THEN "finished" ELSE "running",
                 start |-> w.start,
                 nonce |-> IF stop THEN check ELSE check + 1,
                 best_nonce |-> IF better THEN scan.nonce ELSE w.best_nonce,
                 best_difficulty |-> best_difficulty,
                 best_hash |-> IF better THEN scan.hash ELSE w.best_hash,
                 checks |-> IF stop THEN w.checks ELSE w.checks + 1]]
    /\ UNCHANGED <<search_pc, search_args, timer, join_i, join_best, found>>
    /\ UNCHANGED <<mineVars, bundleVars, txVars, polled>>

\* a second of wall time passes
Tick ==
    /\ search_pc \in {"spawn", "join"}
    /\ timer < MaxTimer
    /\ timer' = timer + 1
    /\ UNCHANGED <<search_pc, search_args, workers, join_i, join_best, found>>
    /\ UNCHANGED <<mineVars, bundleVars, txVars, polled>>

\* mine.rs 228-236: join the next handle, in spawn order
Join ==
    /\ search_pc = "join" /\ join_i < Len(workers)
    /\ LET w == workers[join_i + 1]
       IN /\ join_ready(w)
          /\ join_best' = IF join_better(w.best_difficulty, join_best.difficulty)
                          THEN [nonce |-> w.best_nonce,
                                difficulty |-> w.best_difficulty,
                                hash |-> w.best_hash]
                          ELSE join_best
    /\ join_i' = join_i + 1
    /\ UNCHANGED <<search_pc, search_args, workers, timer, found>>
    /\ UNCHANGED <<mineVars, bundleVars, txVars, polled>>

\* mine.rs 238-245
Return ==
    /\ search_pc = "join" /\ join_i = Len(workers)
    /\ found' = [d |-> join_best.hash, n |-> join_best.nonce]
    /\ search_pc' = "returned"
    /\ UNCHANGED <<search_args, workers, timer, join_i, join_best>>
    /\ UNCHANGED <<mineVars, bundleVars, txVars, polled>>

NextSearch ==
    \/ Spawn
    \/ \E i \in 1..MaxWorkers : WorkerStride(i)
    \/ Tick
    \/ Join
    \/ Return

SpecSearch == InitSearch /\ [][NextSearch]_vars

\* the process keeps running: some thread, the clock or the caller takes its
\* next step.  Every step of a search moves forward (a nonce, a second, a
\* handle), so this is as strong as fairness for each of them.
FairSearch == SpecSearch /\ WF_vars(NextSearch)

(***************************************************************************)
(* The two submitters on their own, from their first send, with the        *)
(* answers of get_signature_statuses kept.                                 *)
(***************************************************************************)
InitSubmit ==
    /\ round = 1
    /\ args \in Args
    /\ fee_payer = PAYER_KEY
    /\ open_i = 1
    /\ proofs = <<>> /\ sol_round = <<>>
    /\ IdleTime
    /\ buses = <<>>
    /\ last_submit = "none"
    /\ b_sigs = <<>> /\ b_attempts = 0 /\ b_sleep_duration = 2000
    /\ b_confirm_i = 0 /\ b_result = "none" /\ b_send_res = "none" /\ b_sends = 0
    /\ t_sigs = <<>> /\ t_attempts = 0 /\ t_sleep_duration = 10000
    /\ t_confirm_i = 0 /\ t_result = "none" /\ t_ret_sig = NoSig
    /\ t_send_res = "none" /\ t_sends = 0 /\ t_landed = NoSig
    /\ IdleSearch
    /\ polled = <<>>
    /\ \/ \* send_and_confirm_with_key, called by open_all for the first signer
          /\ pc = "in_open_tx" /\ t_pc = "send" /\ t_signer = 1 /\ t_hash \in FirstHash
          /\ account_exists = [i \in 1..NumSigners |-> FALSE]
          /\ solutions = <<>> /\ highest_bus = NoBus /\ all_ixs = <<>>
          /\ b_pc = "idle" /\ txs = <<>>
       \/ \* send_and_confirm_bundle, called by mine
          /\ pc = "in_bundle" /\ b_pc = "send"
          /\ account_exists = [i \in 1..NumSigners |-> TRUE]
          /\ solutions = [i \in 1..NumSigners |-> SampleSolution]
          /\ highest_bus = BUS_ADDRESSES(0)
          /\ all_ixs = assemble_ixs(solutions, highest_bus)
          /\ \E hash \in FirstHash :
                txs = build_txs(all_ixs, 0, <<>>, fee_payer, hash,
                                [k \in 1..NumSigners |-> 0], args.jito_tip)
          /\ t_pc = "idle" /\ t_signer = 0 /\ t_hash = 0

NextSubmit ==
    \/ TxSend \/ TxPollSeen \/ TxRetry
    \/ BundleSend \/ BundlePollSeen \/ BundleRetry

SpecSubmit == InitSubmit /\ [][NextSubmit]_vars

(***************************************************************************)
(* Properties.                                                             *)
(***************************************************************************)
Max0(x) == IF x < 0 THEN 0 ELSE x

CeilHalf(n) == (n + 1) \div 2

RECURSIVE Flatten(_)
Flatten(seqs) == IF seqs = <<>> THEN <<>> ELSE Head(seqs) \o Flatten(Tail(seqs))

\* the instructions of a built transaction that came from the input list: what
\* precedes the compute-limit instruction and the tip, when there is one
input_part(tx) ==
    LET n == Len(tx.ixs)
    IN SubSeq(tx.ixs, 1, n - (IF tx.ixs[n].kind = "transfer" THEN 2 ELSE 1))

\* C1: both submitters report "Max retries" after exactly GATEWAY_RETRIES + 1
\* = 5 failed attempts, and neither sends nor polls after that: the call is
\* over, it has sent 5 times, and a finished call sends and polls no more.
C1_State ==
    /\ t_result = "MaxRetries" =>
          /\ t_attempts = GATEWAY_RETRIES + 1 /\ t_sends = GATEWAY_RETRIES + 1
          /\ t_pc = "done"
    /\ b_result = "MaxRetries" =>
          /\ b_attempts = GATEWAY_RETRIES + 1 /\ b_sends = GATEWAY_RETRIES + 1
          /\ b_pc = "done"
    /\ t_attempts = GATEWAY_RETRIES + 1 => t_result = "MaxRetries"
    /\ b_attempts = GATEWAY_RETRIES + 1 => b_result = "MaxRetries"
    /\ t_attempts <= GATEWAY_RETRIES + 1 /\ b_attempts <= GATEWAY_RETRIES + 1
    /\ t_sends <= GATEWAY_RETRIES + 1 /\ b_sends <= GATEWAY_RETRIES + 1

C1_Step ==
    /\ t_pc = "done" =>
          \/ t_sends' = t_sends /\ t_confirm_i' = t_confirm_i /\ t_result' = t_result
          \/ t_pc' = "idle"
    /\ b_pc = "done" =>
          \/ b_sends' = b_sends /\ b_confirm_i' = b_confirm_i /\ b_result' = b_result
          \/ b_pc' = "idle"

C1_MaxRetriesAfterFiveAttempts == []C1_State /\ [][C1_Step]_vars

\* a bundle call that ran out of retries in the second pass of the loop
C1_Witness ==
    /\ pc = "in_bundle" /\ round = 2
    /\ b_result = "MaxRetries" /\ b_sends = 5 /\ b_attempts = 5 /\ b_pc = "done"

\* C2: in the Transaction Submitter a returned signature that differs from the
\* local one ends the call at once, with an error that is not "Max retries";
\* the send is not retried.
C2_MismatchIsFatal ==
    [][(t_pc = "retry" /\ t_send_res = "mismatch") =>
          \/ t_pc' = "done" /\ t_result' \notin {"Ok", "MaxRetries", "none"}
          \/ pc' = "panicked"]_vars

\* C3: in the Bundle Submitter a relay that cannot be reached, answers with a
\* non-2xx status or answers with a malformed body fails only that attempt:
\* the submitter goes on to its retry.
C3_RelayFailureIsRetried ==
    b_send_res \in {"unreachable", "bad_status", "malformed"} =>
        pc = "in_bundle" /\ b_pc = "retry"

\* C4: the mining loop has no end of its own: whenever the Bundle Submitter
\* returns a failure ("Max retries" is the only one it returns) the next pass
\* starts, with no proof and no solution kept, and whatever is submitted was
\* computed in the pass that submits it.  A panic inside the submitter is not
\* a return; it is the subject of C3.
C4_State ==
    /\ pc \in {"submit", "in_bundle"} =>
          /\ Len(solutions) = NumSigners
          /\ \A i \in 1..NumSigners : sol_round[i] = round
          /\ all_ixs = assemble_ixs(solutions, highest_bus)
    /\ Len(sol_round) = Len(solutions)
    /\ \A i \in 1..Len(sol_round) : sol_round[i] = round

C4_Step ==
    (pc = "in_bundle" /\ b_pc = "done") =>
        /\ pc' = "fetch" /\ round' = round + 1
        /\ proofs' = <<>> /\ solutions' = <<>> /\ all_ixs' = <<>>
        /\ last_submit' = b_result

C4_NextRoundAfterFailure == []C4_State /\ [][C4_Step]_vars

\* the second pass starts after the bundle of the first ran out of retries
C4_Witness ==
    /\ round = 2 /\ pc = "fetch" /\ last_submit = "MaxRetries"
    /\ proofs = <<>> /\ solutions = <<>>

\* C5: the Solution in each participant's mine instruction was computed
\* against the challenge of the ProofRecord read for that participant in the
\* same pass.
C5_SolutionMatchesOwnProof ==
    /\ Len(solutions) = Len(proofs) \/ pc \in {"in_bundle", "panicked"}
    /\ pc \in {"fetch", "cutoff", "wait", "select", "submit"} =>
          \A i \in 1..Len(solutions) :
             /\ solutions[i].d[1] = proofs[i].challenge
             /\ solutions[i].d[2] = solutions[i].n
             /\ sol_round[i] = round
    /\ pc = "submit" =>
          /\ Len(proofs) = NumSigners /\ Len(all_ixs) = 2 * NumSigners
          /\ \A i \in 1..NumSigners :
                LET ix == all_ixs[2 * i]
                IN /\ ix.kind = "mine"
                   /\ ix.accounts[1].pubkey = multi_signers[i]
                   /\ ix.accounts[4].pubkey = proof_pubkey(multi_signers[i])
                   /\ ix.data[2] = proofs[i].challenge
                   /\ ix.data[3] = ix.data[4]

C5_Witness ==
    /\ pc = "submit" /\ round = 2
    /\ proofs[1].challenge # proofs[2].challenge
    /\ all_ixs[2].data[2] = proofs[1].challenge
    /\ all_ixs[4].data[2] = proofs[2].challenge

\* C6: after get_cutoff has returned W the loop blocks for at least W seconds
\* before it selects a bus and submits, whatever W and however long the
\* search took.
C6_BlocksAtLeastCutoff ==
    pc \in {"select", "submit"} => wait_elapsed >= cutoff_time

\* C7: get_cutoff returns max(0, last_hash_at + 60 - buffer_time - now) for
\* every input, and 0 whenever now is at or past last_hash_at + 60 -
\* buffer_time.
C7_CutoffIsClampedDifference ==
    pc \in {"wait", "select"} =>
        cutoff_time = Max0(proofs[1].last_hash_at + EPOCH_LENGTH
                           - args.buffer_time - clock)

\* C8: find_highest_reward_bus leaves out the shards whose read failed and
\* returns the address of a shard that holds the most rewards among those
\* read; with rewards 10, 75, 40 and the read of shard 1 failing it returns
\* shard 2.
C8_HighestAmongSuccessfulReads ==
    pc = "returned" =>
        /\ \E k \in 1..BUS_COUNT :
              /\ buses[k] # ReadFailed
              /\ highest_bus = BUS_ADDRESSES(buses[k].id)
              /\ buses[k].id = k - 1
              /\ \A j \in 1..BUS_COUNT :
                    buses[j] # ReadFailed => buses[j].rewards <= buses[k].rewards
        /\ (/\ buses[1] = [id |-> 0, rewards |-> 10]
            /\ buses[2] = ReadFailed
            /\ buses[3] = [id |-> 2, rewards |-> 40]
            /\ \A j \in 4..BUS_COUNT : buses[j] = ReadFailed)
           => highest_bus = BUS_ADDRESSES(2)

C8_Witness ==
    /\ pc = "returned"
    /\ buses[1] = [id |-> 0, rewards |-> 10]
    /\ buses[2] = ReadFailed
    /\ buses[3] = [id |-> 2, rewards |-> 40]
    /\ \A j \in 4..BUS_COUNT : buses[j] = ReadFailed
    /\ highest_bus = BUS_ADDRESSES(2)

\* C9: when every shard read fails the selector's failure ends the pass, not
\* the process: the loop abandons the pass and goes on.
C9_SelectorFailureAbandonsRound ==
    [][pc = "select" => pc' \in {"select", "submit", "fetch"}]_vars

\* C10: n instructions are split into exactly ceil(n / 2) transactions, each
\* with one or two of them, every instruction in exactly one transaction, in
\* the order of the input (8 instructions, 4 transactions).
C10_PartitionInPairs ==
    (pc = "in_bundle" /\ b_pc = "send") =>
        /\ Len(txs) = CeilHalf(Len(all_ixs))
        /\ \A k \in 1..Len(txs) : Len(input_part(txs[k])) \in 1..2
        /\ Flatten([k \in 1..Len(txs) |-> input_part(txs[k])]) = all_ixs
        /\ \A k \in 1..Len(txs) :
              input_part(txs[k]) =
                  SubSeq(all_ixs, 2 * k - 1, Min(2 * k, Len(all_ixs)))

C10_Witness ==
    /\ pc = "in_bundle" /\ b_pc = "send"
    /\ Len(all_ixs) = 8 /\ Len(txs) = 4
    /\ all_ixs[1] # all_ixs[2]

\* the keys that sign a transaction are, each once, the payer and the signer
\* accounts of its instructions
SignerAccounts(ixs) ==
    {m.pubkey : m \in {n \in UNION {Range(ixs[i].accounts) : i \in 1..Len(ixs)} :
                         n.is_signer}}

SignedExactly(tx) ==
    /\ \A i, j \in 1..Len(tx.signers) : tx.signers[i] = tx.signers[j] => i = j
    /\ Range(tx.signers) = {tx.payer} \cup SignerAccounts(tx.ixs)
    /\ tx.payer = fee_payer

\* C11: every transaction the Bundle Submitter builds is signed by exactly
\* the fee payer and the participants that are signer accounts of its
\* instructions, each once, and nobody else; the instructions the mining loop
\* hands over can always be signed so.
C11_SignedByExactlyRequired ==
    /\ (pc = "in_bundle" /\ b_pc \notin {"build", "idle"}) =>
          /\ Len(txs) = NumSigners
          /\ \A k \in 1..Len(txs) : SignedExactly(txs[k])
    /\ (pc = "in_bundle" /\ b_pc = "build") =>
          \A jito_id \in JitoIds :
             LET built == build_txs(all_ixs, 0, <<>>, fee_payer, 1,
                                    [k \in 1..Len(all_ixs) |-> jito_id],
                                    args.jito_tip)
             IN \A k \in 1..Len(built) : SignedExactly(built[k])

\* the fee payer is the first participant: it alone signs the transaction
\* that tips, and signs the second participant's transaction as the payer
C11_Witness ==
    /\ pc = "in_bundle" /\ b_pc = "send" /\ fee_payer = Key(1)
    /\ txs[1].signers = <<Key(1)>>
    /\ txs[1].ixs[Len(txs[1].ixs)].kind = "transfer"
    /\ txs[2].signers = <<Key(1), Key(2)>>

hashed(w) == w.start..(IF w.pc = "finished" THEN w.nonce ELSE w.nonce - 1)

\* the nonces among them that gave a digest of a difficulty above 0
scored(w) ==
    {n \in hashed(w) : /\ hash_ok(search_args.challenge, n)
                       /\ difficulty(search_args.challenge, n) > 0}

\* the worker's best is the first nonce of the greatest difficulty it hashed
IsLocalBest(w) ==
    IF scored(w) = {}
    THEN w.best_difficulty = 0 /\ w.best_nonce = w.start /\ w.best_hash = HashDefault
    ELSE /\ w.best_nonce \in scored(w)
         /\ w.best_difficulty = difficulty(search_args.challenge, w.best_nonce)
         /\ w.best_hash = <<search_args.challenge, w.best_nonce>>
         /\ \A n \in scored(w) :
               \/ difficulty(search_args.challenge, n) < w.best_difficulty
               \/ /\ difficulty(search_args.challenge, n) = w.best_difficulty
                  /\ n >= w.best_nonce

\* C13: for every thread count >= 1 and every challenge the Solution that
\* find_hash_par returns is the local best of a worker, of the greatest
\* difficulty among the workers' local bests; of equal candidates the one
\* found first is kept, inside a worker and in the reduction; the nonce and
\* the digest returned are those of one candidate.
C13_ReturnsBestOfLocalBests ==
    /\ \A i \in 1..Len(workers) : IsLocalBest(workers[i])
    /\ search_pc = "returned" =>
          /\ Len(workers) = search_args.threads
          /\ \E i \in 1..Len(workers) :
                /\ found = [d |-> workers[i].best_hash, n |-> workers[i].best_nonce]
                /\ \A j \in 1..Len(workers) :
                      workers[j].best_difficulty <= workers[i].best_difficulty
                /\ \A j \in 1..(i - 1) :
                      workers[j].best_difficulty < workers[i].best_difficulty
          /\ found.d = <<search_args.challenge, found.n>>
          /\ hash_ok(search_args.challenge, found.n)

\* two workers whose local bests have the same difficulty: the first is returned
C13_Witness ==
    /\ search_pc = "returned" /\ Len(workers) = 2
    /\ workers[1].best_difficulty = workers[2].best_difficulty
    /\ workers[1].best_nonce # workers[1].start
    /\ found.n = workers[1].best_nonce

\* C14: worker i starts at i * (MAX / threads), and no nonce is hashed by two
\* workers of one search.
C14_RangesNeverOverlap ==
    /\ \A i \in 1..Len(workers) :
          workers[i].start = (i - 1) * (U64_MAX \div search_args.threads)
    /\ \A i, j \in 1..Len(workers) :
          i # j => hashed(workers[i]) \cap hashed(workers[j]) = {}

\* C15: a worker looks at the deadline only after hashing a nonce that is a
\* multiple of 100; it leaves its loop exactly when, at such a check, the
\* deadline has passed and its best difficulty exceeds the minimum; so a
\* worker that has left its loop has a best above the minimum, and a worker
\* whose best is not above the minimum goes on however late it is.
C15_State ==
    \A i \in 1..Len(workers) :
       LET w == workers[i]
       IN /\ w.pc = "finished" =>
                /\ w.nonce % CHECK_EVERY = 0
                /\ w.best_difficulty > search_args.min_difficulty
                /\ timer >= search_args.cutoff_time
          /\ w.best_difficulty <= search_args.min_difficulty => w.pc = "running"

C15_Step ==
    \A i \in 1..Len(workers) :
       LET w == workers[i]
           v == workers'[i]
       IN v # w =>
             /\ w.pc = "running"
             /\ \E check \in w.nonce..(w.nonce + CHECK_EVERY - 1) :
                   /\ check % CHECK_EVERY = 0
                   /\ IF /\ timer >= search_args.cutoff_time
                         /\ v.best_difficulty > search_args.min_difficulty
                      THEN v.pc = "finished" /\ v.nonce = check
                      ELSE v.pc = "running" /\ v.nonce = check + 1

AllCleared ==
    /\ search_pc \in {"spawn", "join"}
    /\ Len(workers) = search_args.threads
    /\ \A i \in 1..Len(workers) :
          workers[i].best_difficulty > search_args.min_difficulty

C16_State ==
    /\ search_pc = "returned" =>
          /\ Len(workers) = search_args.threads
          /\ join_i = Len(workers)
          /\ \A i \in 1..Len(workers) : workers[i].pc = "finished"
          /\ found # NoSolution
    /\ \A i \in 1..join_i : workers[i].pc = "finished"
    /\ pc # "panicked"

C16_TerminatesAfterJoiningAll ==
    /\ []C16_State
    /\ AllCleared ~> (search_pc = "returned")

\* both workers cleared the minimum before the deadline and left once it had
\* passed; the second one's best is the greater
C16_Witness ==
    /\ search_pc = "returned" /\ Len(workers) = 2 /\ search_args.cutoff_time = 1
    /\ workers[1].best_difficulty < workers[2].best_difficulty
    /\ found.n = workers[2].best_nonce

\* C17: open_all sends a registration transaction for a participant only if
\* that participant's proof account is absent; for a participant whose proof
\* account exists no transaction is sent.
C17_RegistersOnlyIfAbsent ==
    [][(pc = "open_all" /\ open_i <= NumSigners /\ account_exists[open_i]) =>
          /\ pc' = "open_all" /\ open_i' = open_i + 1
          /\ t_pc' = "idle" /\ t_sends' = 0]_vars

\* C18: the mining loop does not fetch a participant's proof, nor mine
\* against it, before that participant's proof account exists.
C18_FetchOnlyAfterRegistration ==
    [][pc = "fetch" => account_exists[Len(proofs) + 1]]_vars

\* C20 (as the code has it): when the polls of a send are used up without a
\* confirmed or finalized status, send_and_confirm_with_key reads a new
\* blockhash, signs again and sends again as long as no more than
\* GATEWAY_RETRIES attempts have failed; every transaction sent is signed
\* with the blockhash read last; one call sends GATEWAY_RETRIES + 1 = 5 times
\* at most, the first send and 4 retries.
C20_State ==
    /\ t_sends <= GATEWAY_RETRIES + 1
    /\ t_pc \in {"send", "confirm", "retry"} => t_sends <= t_attempts + 1
    /\ t_pc = "send" => t_sends = t_attempts
    /\ t_pc = "confirm" => t_sigs[Len(t_sigs)] = <<"sig", t_signer, t_hash>>
    /\ \A k \in 1..Len(t_sigs) : t_sigs[k][3] <= t_hash

C20_Step ==
    /\ (t_pc = "confirm" /\ t_pc' # "confirm") =>
          \/ t_pc' = "done" /\ t_result' = "Ok"
          \/ t_pc' = "retry" /\ t_confirm_i' = CONFIRM_RETRIES
    /\ (t_pc = "retry" /\ pc' # "panicked") =>
          /\ t_attempts' = t_attempts + 1
          /\ t_hash' \in t_hash..MaxHash
          /\ IF t_attempts' <= GATEWAY_RETRIES
             THEN t_pc' = "send"
             ELSE t_pc' = "done" /\ t_result' = "MaxRetries"

C20_ResendsUpToFiveTimes == []C20_State /\ [][C20_Step]_vars

\* the fifth send of a call whose four earlier sends were accepted and never
\* confirmed
C20_Witness ==
    /\ pc = "in_open_tx" /\ t_pc = "confirm"
    /\ t_sends = GATEWAY_RETRIES + 1 /\ Len(t_sigs) = GATEWAY_RETRIES + 1
    /\ t_attempts = GATEWAY_RETRIES

\* C20: one call of the Transaction Submitter makes at most GATEWAY_RETRIES =
\* 4 send attempts in total.
C20_AtMostFourSends == t_sends <= GATEWAY_RETRIES

\* an answer with a confirmed or a finalized status in it
HasLanded(answer) ==
    /\ answer # PollError
    /\ \E k \in 1..Len(answer) : answer[k] \in {"confirmed", "finalized"}

\* C19: after a send that was accepted, with confirmation on, the submitter
\* asks for the signature statuses at most CONFIRM_RETRIES = 4 times for that
\* send; an answer with a confirmed or finalized status ends the call with
\* success; an answer with only processed or absent statuses, or a failed
\* request, does not end the call: the polling goes on, or, after the fourth,
\* the retry section is entered.
C19_State ==
    /\ t_confirm_i <= CONFIRM_RETRIES /\ b_confirm_i <= CONFIRM_RETRIES
    /\ t_pc = "confirm" => t_confirm_i < CONFIRM_RETRIES /\ t_send_res = "ok"
    /\ b_pc = "confirm" => b_confirm_i < CONFIRM_RETRIES /\ b_send_res = "ok"

C19_Step ==
    /\ (pc = "in_open_tx" /\ t_pc = "confirm") =>
          /\ polled' \in PollAnswers(t_sigs)
          /\ t_sends' = t_sends /\ t_attempts' = t_attempts
          /\ IF HasLanded(polled')
             THEN t_pc' = "done" /\ t_result' = "Ok"
             ELSE /\ t_result' = "none"
                  /\ t_confirm_i' = t_confirm_i + 1
                  /\ t_pc' = IF t_confirm_i = CONFIRM_RETRIES - 1
                             THEN "retry" ELSE "confirm"
    /\ (pc = "in_bundle" /\ b_pc = "confirm") =>
          /\ polled' \in PollAnswers(b_sigs)
          /\ b_sends' = b_sends /\ b_attempts' = b_attempts
          /\ IF HasLanded(polled')
             THEN b_pc' = "done" /\ b_result' = "Ok"
             ELSE /\ b_result' = "none"
                  /\ b_confirm_i' = b_confirm_i + 1
                  /\ b_pc' = IF b_confirm_i = CONFIRM_RETRIES - 1
                             THEN "retry" ELSE "confirm"
    /\ (t_pc = "send" /\ t_pc' = "confirm") => t_confirm_i' = 0
    /\ (b_pc = "send" /\ b_pc' = "confirm") => b_confirm_i' = 0

C19_PollsAtMostFourTimes == []C19_State /\ [][C19_Step]_vars

\* the fourth answer for a send: the first transaction processed, the one
\* signed again confirmed; the call ends with success
C19_Witness ==
    /\ pc = "in_open_tx" /\ t_pc = "done" /\ t_result = "Ok"
    /\ t_confirm_i = CONFIRM_RETRIES - 1
    /\ polled = <<"processed", "confirmed">>

\* C21: open_all runs once, before the first pass, and is not entered again;
\* every pass of the loop then goes through fetch and search (once for each
\* participant), the cutoff and the wait, the selection of the bus and the
\* submission, in that order, each of the last three once in the pass, and
\* the one submission carries the instructions of every participant.  A pass
\* that an unwrap ends goes no further.
C21_State ==
    /\ pc \in {"open_all", "in_open_tx"} => round = 0
    /\ round = 0 => pc \in {"open_all", "in_open_tx", "panicked"}
    /\ pc \in {"cutoff", "wait", "select", "submit"} =>
          Len(proofs) = NumSigners /\ Len(solutions) = NumSigners
    /\ pc \in {"submit", "in_bundle"} =>
          /\ Len(all_ixs) = 2 * NumSigners
          /\ \A i \in 1..NumSigners :
                /\ all_ixs[2 * i - 1] = auth_ix(proof_pubkey(multi_signers[i]))
                /\ all_ixs[2 * i] = mine_ix(multi_signers[i], multi_signers[i],
                                            highest_bus, solutions[i])

C21_Step ==
    /\ pc' \in {"open_all", "in_open_tx"} => pc \in {"open_all", "in_open_tx"}
    /\ open_i' \in {open_i, open_i + 1}
    /\ round' # round => pc' = "fetch" /\ round' = round + 1
    /\ (pc = "open_all" /\ pc' = "fetch") => open_i = NumSigners + 1
    /\ pc = "fetch" =>
          /\ pc' \in {"fetch", "cutoff", "panicked"}
          /\ pc' # "panicked" =>
                /\ Len(proofs') = Len(proofs) + 1
                /\ Len(solutions') = Len(solutions) + 1
                /\ pc' = "cutoff" <=> Len(proofs') = NumSigners
    /\ pc = "cutoff" =>
          /\ pc' \in {"wait", "select"}
          /\ proofs' = proofs /\ solutions' = solutions
    /\ pc = "wait" =>
          /\ pc' \in {"wait", "select", "panicked"}
          /\ proofs' = proofs /\ solutions' = solutions
    /\ pc = "select" =>
          /\ pc' \in {"submit", "panicked"}
          /\ solutions' = solutions
    /\ pc = "submit" =>
          /\ pc' = "in_bundle" /\ b_pc' = "build" /\ b_sends' = 0
          /\ all_ixs' = all_ixs /\ round' = round
    /\ pc = "in_bundle" =>
          /\ pc' \in {"in_bundle", "fetch", "panicked"}
          /\ pc' = "in_bundle" => all_ixs' = all_ixs /\ b_pc' # "build"
          /\ pc' = "fetch" => b_pc = "done" /\ round' = round + 1

C21_StagesInOrder == []C21_State /\ [][C21_Step]_vars

\* the second pass has come to its submission
C21_Witness ==
    /\ round = 2 /\ pc = "in_bundle" /\ b_pc = "send"
    /\ Len(txs) = NumSigners

\* C22: in a pass the proof reads of the participants are issued together and
\* joined before the pass goes on: while a proof is still to be read no
\* search has run.  (The reads of the BUS_COUNT shards are joined in
\* FindHighestRewardBus and MineSelect: one step holds them all.)
C22_ProofReadsJoinedBeforeSearch ==
    (pc = "fetch" /\ Len(proofs) < NumSigners) => solutions = <<>>

\* C23: in one call of send_and_confirm_bundle the blockhash is read once and
\* every transaction of the bundle carries it; every relay request of the
\* call, the first and the retries, sends the transactions as they were built
\* and signed, and every signature asked about is the one of the first
\* transaction.
C23_State ==
    (pc = "in_bundle" /\ b_pc \in {"send", "confirm", "retry", "done"}) =>
        /\ txs # <<>>
        /\ \A k \in 1..Len(txs) : txs[k].hash = txs[1].hash
        /\ \A j \in 1..Len(b_sigs) : b_sigs[j] = bundle_signature(txs[1])
        /\ Len(b_sigs) <= b_sends

C23_Step ==
    (pc = "in_bundle" /\ b_pc \in {"send", "confirm", "retry"}) =>
        \/ pc' = "panicked"
        \/ /\ txs' = txs /\ all_ixs' = all_ixs
           /\ b_sends' = IF b_pc = "send" THEN b_sends + 1 ELSE b_sends
           /\ \/ b_sigs' = b_sigs
              \/ b_pc = "send" /\ b_sigs' = Append(b_sigs, bundle_signature(txs[1]))

C23_SameBundleEveryAttempt == []C23_State /\ [][C23_Step]_vars

\* a third relay request of a call whose first two were accepted and polled
C23_Witness ==
    /\ pc = "in_bundle" /\ b_pc = "confirm" /\ b_sends = 3
    /\ Len(b_sigs) = 3 /\ b_sigs[1] = b_sigs[3]
    /\ Len(txs) = NumSigners

\* C24: when send_and_confirm_with_key returns Ok with confirmation on, the
\* signature it returns is the one whose status was seen confirmed or
\* finalized.
C24_ReturnsTheLandedSignature ==
    (pc = "in_open_tx" /\ t_pc = "done" /\ t_result = "Ok") => t_ret_sig = t_landed

\* C25: when a pass submits, the ledger clock has reached last_hash_at +
\* EPOCH_LENGTH - buffer_time of every participant of the pass, not only of
\* the one whose proof was read last.
C25_WaitCoversEveryParticipant ==
    pc = "submit" =>
        \A i \in 1..Len(proofs) :
            clock >= proofs[i].last_hash_at + EPOCH_LENGTH - args.buffer_time

\* C26: every bundle that is sent to the relay holds a transaction with the
\* transfer to the relay's tip account, whoever the fee payer is.
C26_EveryBundleCarriesTheTip ==
    (pc = "in_bundle" /\ b_sends > 0) =>
        \E k \in 1..Len(txs) : \E i \in 1..Len(txs[k].ixs) :
            /\ txs[k].ixs[i].kind = "transfer"
            /\ txs[k].ixs[i].accounts[1].pubkey = fee_payer

\* C27: in the wait loop the whole seconds read after a sleep never exceed
\* wait_time, so wait_time - elapsed does not underflow: what remains is
\* between 0 and wait_time and the subtraction never ends the process.
C27_RemainingNeverUnderflows ==
    /\ wait_elapsed <= wait_time
    /\ remaining <= wait_time

\* C28: every transaction of the bundle built from the instructions of a pass
\* holds the auth instruction of one participant followed by the mine
\* instruction of the same participant, transaction k those of participant k;
\* no pair is split, and every mine instruction names the bus selected in the
\* pass.
C28_OnePairPerTransaction ==
    (pc = "in_bundle" /\ b_pc \in {"send", "confirm", "retry", "done"}) =>
        /\ Len(txs) = NumSigners
        /\ \A k \in 1..Len(txs) :
              LET part == input_part(txs[k])
              IN /\ Len(part) = 2
                 /\ part[1] = auth_ix(proof_pubkey(multi_signers[k]))
                 /\ part[2].kind = "mine"
                 /\ part[2].accounts[1] = AccountMeta(multi_signers[k], TRUE)
                 /\ part[2].accounts[2].pubkey = highest_bus
                 /\ part[2].accounts[4].pubkey = proof_pubkey(multi_signers[k])
                 /\ part[2] = mine_ix(multi_signers[k], multi_signers[k],
                                      highest_bus, solutions[k])
                 /\ \A i \in 1..Len(txs[k].ixs) :
                       txs[k].ixs[i].kind \in {"auth", "mine"} => i <= 2

\* the bundle of a pass that selected the last bus
C28_Witness ==
    /\ pc = "in_bundle" /\ b_pc = "send"
    /\ highest_bus = BUS_ADDRESSES(BUS_COUNT - 1)
    /\ Len(txs) = NumSigners
    /\ input_part(txs[NumSigners])[2].accounts[1].pubkey = multi_signers[NumSigners]
    /\ input_part(txs[NumSigners])[2].accounts[2].pubkey = BUS_ADDRESSES(BUS_COUNT - 1)

\* the first nonce divisible by 100, from `check` on, at which a worker that
\* started at `start` holds a candidate above the minimum
RECURSIVE first_stop(_, _, _, _)
first_stop(challenge, start, check, min_difficulty) ==
    IF best_of_scan(challenge, start, check).difficulty > min_difficulty
    THEN check
    ELSE first_stop(challenge, start, check + CHECK_EVERY, min_difficulty)

\* C29: called with cutoff_time = 0, as mine() calls it, find_hash_par is a
\* function of the challenge, the thread count and the minimum difficulty:
\* every worker leaves its loop at the first nonce divisible by 100 at which
\* its best exceeds the minimum, with the same best whatever the order the
\* threads ran in and whatever time passed, and the Solution returned is the
\* one the reduction in spawn order gives.
C29_DeterministicAtZeroCutoff ==
    search_args.cutoff_time = 0 =>
        /\ \A i \in 1..Len(workers) :
              LET w == workers[i]
              IN w.pc = "finished" =>
                    LET r == worker(search_args.challenge, i - 1, search_args.threads,
                                    search_args.min_difficulty)
                    IN /\ w.nonce = first_stop(search_args.challenge, w.start,
                                               next_check(w.start),
                                               search_args.min_difficulty)
                       /\ w.best_nonce = r.nonce
                       /\ w.best_difficulty = r.difficulty
                       /\ w.best_hash = r.hash
        /\ search_pc = "returned" =>
              found = find_hash_par(search_args.challenge, search_args.threads,
                                    search_args.min_difficulty)

\* a search that returned after a second had passed; its first worker went
\* past one check before it left, the second left at its first
C29_Witness ==
    /\ search_pc = "returned" /\ search_args.cutoff_time = 0
    /\ timer = MaxTimer
    /\ Len(workers) >= 2
    /\ workers[1].checks = 1 /\ workers[2].checks = 0
    /\ found # NoSolution

====
